---- MODULE Spec2Model ----
(***************************************************************************)
(* Guardian: a terminal dashboard that samples host metrics once per tick, *)
(* keeps rolling histories, scores each metric against its recent history  *)
(* (z-score), classifies it against fixed thresholds, surfaces alerts      *)
(* through a per-key cooldown and stores every sample in PostgreSQL.       *)
(*                                                                         *)
(* Numbers.  Metric values are whole numbers (percent, KB/s) and the clock *)
(* counts whole seconds; the program holds both as floats.  The mean and   *)
(* standard deviation of a window buf of n values are never formed: with   *)
(* S = Sum(buf) and Q = SumSq(buf),                                        *)
(*      n * (val - mean)  =  n*val - S          (DevNum)                   *)
(*      n^2 * std^2       =  n*Q - S^2          (VarNum)                   *)
(* so every comparison of the code is an exact comparison of integers.     *)
(***************************************************************************)
EXTENDS Integers, Sequences, FiniteSets, TLC

VARIABLES
    now,                \* the wall clock, time.time(), in seconds
    env,                \* the snapshot the host currently presents
    changes,            \* how often the host's snapshot has changed so far
    tick,               \* completed iterations of main's loop
    cpu_history, ram_history, disk_history, net_up_history, net_down_history,
    z_cpu_buf, z_ram_buf, z_up_buf, z_down_buf,
    z_results, z_anomalies,
    alert_log, _last_alert_time,
    stats_rows, stats_seq,
    ret,                \* the last call: its name, arguments and what it returned
    samples,            \* history: every snapshot main has consumed, in order
    fired,              \* history: every alert that entered alert_log, in order
    calls,              \* history: the _log_alert calls of the last step, in order
    anomalies_rows, anomalies_seq,  \* the anomalies table and its id sequence
    schema,             \* the tables and indexes that exist in the store
    DB_LOCK,            \* db.py's lock: "free" or the thread that holds it
    threads,            \* each thread's place in its persistence call
    _last_net, _last_net_time,      \* monitor.py's network baseline
    pc,                 \* main's place in its loop body
    loop_stats,         \* main's local stats
    loop_anomalies,     \* main's local anomalies
    stages              \* history: the stages run in the current iteration, in order

histVars  == <<cpu_history, ram_history, disk_history, net_up_history, net_down_history>>
zVars     == <<z_cpu_buf, z_ram_buf, z_up_buf, z_down_buf, z_results, z_anomalies>>
alertVars == <<alert_log, _last_alert_time, fired, calls>>
dbVars    == <<stats_rows, stats_seq>>
envVars   == <<env, changes, tick, samples>>
restVars  == <<anomalies_rows, anomalies_seq, schema, DB_LOCK, threads, _last_net, _last_net_time, pc, loop_stats, loop_anomalies, stages>>
vars      == <<now, envVars, histVars, zVars, alertVars, dbVars, ret, restVars>>

-----------------------------------------------------------------------------
(* Configuration: main.py                                                  *)

SPARKLINE_LEN  == 24
REFRESH_RATE   == 1
ALERT_LOG_LEN  == 5
ALERT_COOLDOWN == 60
Z_WINDOW       == 60
Z_THRESHOLD    == 3
Z_MIN_SAMPLES  == 30

THRESHOLDS ==
    [cpu  |-> [warning |-> 60, critical |-> 85],
     ram  |-> [warning |-> 70, critical |-> 85],
     disk |-> [warning |-> 70, critical |-> 90]]

DEFAULT_THRESHOLD == [warning |-> 70, critical |-> 85]

-----------------------------------------------------------------------------
(* Bounds of the model                                                     *)

MaxTicks   == 61    \* iterations of main's loop
MaxChanges == 1     \* changes of the host's condition during a run
StartTime  == 1000  \* the clock reading when main starts
MaxAdvances == 2    \* clock advances between calls
MaxSaves    == 3    \* INSERT statements the backend runs
MaxRows     == 11   \* samples the loop stores before a baseline is asked for
MaxAnomalies == 2   \* INSERT statements into anomalies the backend runs
MaxClock    == 2    \* the largest reading of a clock that may stand or go back
MaxLoops    == 32   \* iterations of main's loop when followed statement by statement
MaxCalls    == 2    \* persistence calls a thread makes
MaxSpikes   == 3    \* values of 95 fed after the 60 that fill the window

-----------------------------------------------------------------------------
(* Sequences                                                               *)

\* s[1] + ... + s[n] and s[1]^2 + ... + s[n]^2
RECURSIVE SumTo(_, _)
SumTo(s, n) == IF n = 0 THEN 0 ELSE s[n] + SumTo(s, n - 1)

RECURSIVE SumSqTo(_, _)
SumSqTo(s, n) == IF n = 0 THEN 0 ELSE s[n] * s[n] + SumSqTo(s, n - 1)

Sum(s)   == SumTo(s, Len(s))
SumSq(s) == SumSqTo(s, Len(s))

Abs(x) == IF x < 0 THEN -x ELSE x

Repeat(x, n) == [i \in 1..n |-> x]

\* The last n elements of s (all of s when it is shorter).
LastN(s, n) == IF Len(s) <= n THEN s ELSE SubSeq(s, Len(s) - n + 1, Len(s))

\* A faulty append: a full deque gives up its newest element, not its oldest.
DequeAppendDropsNewest(d, x, maxlen) ==
    IF Len(d) >= maxlen THEN Append(SubSeq(d, 1, maxlen - 1), x) ELSE Append(d, x)

\* collections.deque(maxlen=maxlen).append(x)
DequeAppend(d, x, maxlen) ==
    IF Len(d) >= maxlen THEN Append(Tail(d), x) ELSE Append(d, x)

\* A faulty appendleft: a full deque gives up its newest element, not its oldest.
DequeAppendLeftDropsNewest(d, x, maxlen) ==
    IF Len(d) >= maxlen THEN <<x>> \o Tail(d) ELSE <<x>> \o d

\* collections.deque(maxlen=maxlen).appendleft(x)
DequeAppendLeft(d, x, maxlen) ==
    IF Len(d) >= maxlen THEN <<x>> \o SubSeq(d, 1, maxlen - 1) ELSE <<x>> \o d

-----------------------------------------------------------------------------
(* Z-score detection: main.py, run_zscore                                  *)

\* The tracked metrics, in the order of run_zscore's checks list.
ZLabels == <<"CPU", "RAM", "Net Upload", "Net Download">>

\* n * (val - mean), for a window of n values whose sum is S.
DevNum(val, n, S) == n * val - S

\* n^2 * std^2, for a window of n values whose sum is S and whose sum of squares
\* is Q: arr.std() is the population deviation.
VarNum(n, S, Q) == n * Q - S * S

\* A faulty flat-signal test: no signal counts as flat.
FlatSignalNever(n, var) == FALSE

\* std < 0.01, that is 10000 * var < n^2 for var = n^2 * std^2; var is a whole
\* number, so this is var < ceiling(n^2 / 10000), which keeps the product small.
FlatSignal(n, var) == var < (n * n + 9999) \div 10000

\* z = (val - mean) / std, of which the model keeps the sign; numpy divides a
\* zero deviation by a zero std to nan (and warns, without raising).
ZSign(dev, var) ==
    IF var = 0 THEN "nan"
    ELSE IF dev > 0 THEN "pos" ELSE IF dev < 0 THEN "neg" ELSE "zero"

\* A faulty flag: >= for >.
FlaggedAtThreshold(dev, var) == dev * dev >= Z_THRESHOLD * Z_THRESHOLD * var

\* A faulty flag: 2 standard deviations for Z_THRESHOLD.
FlaggedBeyondTwo(dev, var) == dev * dev > 2 * 2 * var

\* abs(z) > Z_THRESHOLD: both sides squared and scaled by n^2 * std^2 (for nan,
\* which compares false, dev and var are both 0).
Flagged(dev, var) == dev * dev > Z_THRESHOLD * Z_THRESHOLD * var

\* A faulty score: the value is held against the window as it was before the
\* value entered it.
ScoreAgainstEarlier(val, buf) ==
    LET n   == Len(buf) - 1
        S   == SumTo(buf, n)
        dev == DevNum(val, n, S)
        var == VarNum(n, S, SumSqTo(buf, n))
    IN  IF FlatSignal(n, var)
        THEN [z |-> "zero", val |-> val, flagged |-> FALSE]
        ELSE [z |-> ZSign(dev, var), val |-> val, flagged |-> Flagged(dev, var)]

\* One entry of results.  z keeps the sign of the z-score only (its size, the
\* mean and the deviation are rounded for the panel and decide nothing).
Score(val, buf) ==
    LET n   == Len(buf)
        S   == Sum(buf)
        dev == DevNum(val, n, S)
        var == VarNum(n, S, SumSq(buf))
    IN  IF FlatSignal(n, var)
        THEN [z |-> "zero", val |-> val, flagged |-> FALSE]
        ELSE [z |-> ZSign(dev, var), val |-> val, flagged |-> Flagged(dev, var)]

\* The description appended for a flagged metric, whose z has the sign z.
Describe(label, val, z) ==
    [label     |-> label,
     direction |-> IF z = "pos" THEN "spike" ELSE "drop",
     val       |-> val]

\* A faulty warm-up test: <= for <.
WarmingUpOneLonger(cpu_buf) == Len(cpu_buf) <= Z_MIN_SAMPLES

\* len(z_cpu_buf) < Z_MIN_SAMPLES
WarmingUp(cpu_buf) == Len(cpu_buf) < Z_MIN_SAMPLES

\* The window each label is scored against: the buffers after the appends.
ZInputs(cpu, ram, net_up, net_down, bufs) ==
    [l \in {ZLabels[i] : i \in 1..Len(ZLabels)} |->
        CASE l = "CPU"          -> [val |-> cpu,      buf |-> bufs.cpu]
          [] l = "RAM"          -> [val |-> ram,      buf |-> bufs.ram]
          [] l = "Net Upload"   -> [val |-> net_up,   buf |-> bufs.up]
          [] l = "Net Download" -> [val |-> net_down, buf |-> bufs.down]]

\* The tail of run_zscore, from the warm-up test on: bufs are the buffers after
\* the appends, in the value and window of each label, results the scores.
ZReport(bufs, in, results, hit) ==
    IF WarmingUp(bufs.cpu)
    THEN [bufs |-> bufs, z_results |-> <<>>, z_anomalies |-> <<>>,
          anomalies |-> <<>>]
    ELSE [bufs |-> bufs, z_results |-> results, z_anomalies |-> hit,
          anomalies |-> [i \in 1..Len(hit) |->
                            Describe(hit[i], in[hit[i]].val, results[hit[i]].z)]]

\* The labels of results that are flagged, in the order of the checks list.
FlaggedLabels(results) == SelectSeq(ZLabels, LAMBDA l : results[l].flagged)

\* The loop over checks, then the tail.
ZScored(bufs, in, results) == ZReport(bufs, in, results, FlaggedLabels(results))

ZScores(bufs, in) ==
    ZScored(bufs, in, [l \in DOMAIN in |-> Score(in[l].val, in[l].buf)])

ZAppended(cpu, ram, net_up, net_down, bufs) ==
    ZScores(bufs, ZInputs(cpu, ram, net_up, net_down, bufs))

\* run_zscore(cpu, ram, net_up, net_down) on the buffers old: the buffers, the
\* globals z_results and z_anomalies, and the returned list, after the call.
run_zscore(cpu, ram, net_up, net_down, old) ==
    ZAppended(cpu, ram, net_up, net_down,
              [cpu  |-> DequeAppend(old.cpu,  cpu,      Z_WINDOW),
               ram  |-> DequeAppend(old.ram,  ram,      Z_WINDOW),
               up   |-> DequeAppend(old.up,   net_up,   Z_WINDOW),
               down |-> DequeAppend(old.down, net_down, Z_WINDOW)])

-----------------------------------------------------------------------------
(* Thresholds: main.py, _threshold                                         *)

Metrics == {"cpu", "ram", "disk"}

\* THRESHOLDS.get(metric, {"warning": 70, "critical": 85})
ThresholdsOf(metric) ==
    IF metric \in DOMAIN THRESHOLDS THEN THRESHOLDS[metric] ELSE DEFAULT_THRESHOLD

\* A faulty classification: > for >= at both bands.
ThresholdAbove(value, metric) ==
    IF value > ThresholdsOf(metric).critical THEN <<"red", "CRITICAL", "bold red">>
    ELSE IF value > ThresholdsOf(metric).warning
         THEN <<"yellow", "WARNING", "bold yellow">>
         ELSE <<"green", "NORMAL", "bold green">>

\* _threshold(value, metric): (color, status, style)
_threshold(value, metric) ==
    LET t == ThresholdsOf(metric)
    IN  IF value >= t.critical THEN <<"red", "CRITICAL", "bold red">>
        ELSE IF value >= t.warning THEN <<"yellow", "WARNING", "bold yellow">>
        ELSE <<"green", "NORMAL", "bold green">>

-----------------------------------------------------------------------------
(* Alerts: main.py, _log_alert, build_status and main's loop over anomalies *)

\* datetime.now().strftime("%H:%M:%S"): the time of day, to the second.
FmtTime(t) == t % 86400

\* _last_alert_time.get(key, 0)
LastAlert(last, key) == IF key \in DOMAIN last THEN last[key] ELSE 0

\* A faulty cooldown test: <= for <.
InCooldownOneLonger(last, key, t) == t - LastAlert(last, key) <= ALERT_COOLDOWN

\* now - _last_alert_time.get(key, 0) < ALERT_COOLDOWN
InCooldown(last, key, t) == t - LastAlert(last, key) < ALERT_COOLDOWN

\* dict[key] = t
DictSet(d, key, t) == [k \in DOMAIN d \cup {key} |-> IF k = key THEN t ELSE d[k]]

\* One _log_alert call as the history calls records it: its key and message,
\* the clock reading, how many alerts had fired before it, whether it added one.
Call(key, msg, t, st, surfaced) ==
    [key |-> key, msg |-> msg, t |-> t, before |-> Len(st.fired),
     surfaced |-> surfaced]

\* A faulty governor: a suppressed call restarts the key's cooldown.
LogAlertRefreshing(key, msg, t, st) ==
    IF InCooldown(st.last, key, t)
    THEN [st EXCEPT !.last  = DictSet(@, key, t),
                    !.calls = Append(@, Call(key, msg, t, st, FALSE))]
    ELSE [log   |-> DequeAppendLeft(st.log, [ts |-> FmtTime(t), msg |-> msg],
                                    ALERT_LOG_LEN),
          last  |-> DictSet(st.last, key, t),
          fired |-> Append(st.fired, [key |-> key, t |-> t, msg |-> msg]),
          calls |-> Append(st.calls, Call(key, msg, t, st, TRUE))]

\* _log_alert(key, msg) at clock reading t on st = [log, last, fired, calls];
\* fired and calls are the histories, which the program does not keep.
_log_alert(key, msg, t, st) ==
    IF InCooldown(st.last, key, t)
    THEN [st EXCEPT !.calls = Append(@, Call(key, msg, t, st, FALSE))]
    ELSE [log   |-> DequeAppendLeft(st.log, [ts |-> FmtTime(t), msg |-> msg],
                                    ALERT_LOG_LEN),
          last  |-> DictSet(st.last, key, t),
          fired |-> Append(st.fired, [key |-> key, t |-> t, msg |-> msg]),
          calls |-> Append(st.calls, Call(key, msg, t, st, TRUE))]

\* The words of a label, as str.split() cuts them.
Words(label) ==
    CASE label = "CPU"          -> <<"CPU">>
      [] label = "RAM"          -> <<"RAM">>
      [] label = "Net Upload"   -> <<"Net", "Upload">>
      [] label = "Net Download" -> <<"Net", "Download">>
      [] label = "Disk"         -> <<"Disk">>

\* a.split()[0]: a description starts with its label.
FirstWord(a) == Head(Words(a.label))

\* A faulty key: the metric's threshold key, without the z_ prefix.
ZKeyOfMetric(a) ==
    CASE FirstWord(a) = "CPU" -> "cpu"
      [] FirstWord(a) = "RAM" -> "ram"
      [] OTHER -> FirstWord(a)

\* f"z_{metric_key}"
ZKey(a) == "z_" \o FirstWord(a)

\* The message of a z-score alert and of a threshold alert.
ZMsg(a) == [src |-> "zscore", label |-> a.label, detail |-> a.direction, val |-> a.val]
ThresholdMsg(label, status, val) ==
    [src |-> "threshold", label |-> label, detail |-> status, val |-> val]

\* main, lines 502-504: for a in anomalies: _log_alert(f"z_{...}", ...)
RECURSIVE LogAnomalies(_, _, _)
LogAnomalies(anomalies, t, st) ==
    IF anomalies = <<>> THEN st
    ELSE LogAnomalies(Tail(anomalies), t,
                      _log_alert(ZKey(Head(anomalies)), ZMsg(Head(anomalies)), t, st))

\* build_status's checks list: (value, metric, label)
StatusChecks(stats) ==
    << <<stats.cpu,  "cpu",  "CPU">>,
       <<stats.ram,  "ram",  "RAM">>,
       <<stats.disk, "disk", "Disk">> >>

\* build_status's loop over checks from the i-th on.
RECURSIVE StatusLoop(_, _, _, _)
StatusLoop(checks, i, t, st) ==
    IF i > Len(checks) THEN st
    ELSE LET val    == checks[i][1]
             metric == checks[i][2]
             label  == checks[i][3]
             status == _threshold(val, metric)[2]
         IN  StatusLoop(checks, i + 1, t,
                 IF status # "NORMAL"
                 THEN _log_alert(metric, ThresholdMsg(label, status, val), t, st)
                 ELSE st)

build_status(stats, t, st) == StatusLoop(StatusChecks(stats), 1, t, st)

-----------------------------------------------------------------------------
(* Persistence: db.py.  The store is PostgreSQL; what a statement does is  *)
(* read off its SQL text.                                                  *)

\* What init_db creates: two tables and an index on each.
SchemaObjects == {"stats", "idx_stats_timestamp", "anomalies", "idx_anomalies_timestamp"}

\* The store as the program's state holds it: the stats table (rows, seq), the
\* anomalies table (anomalies, aseq) and the objects init_db created.
Store ==
    [rows |-> stats_rows, seq |-> stats_seq,
     anomalies |-> anomalies_rows, aseq |-> anomalies_seq, schema |-> schema]

\* What the backend does to one call: it serves it, or the connect, a statement
\* or the commit fails.
DbOutcomes == {"ok", "connect_fails", "execute_fails", "commit_fails"}

\* What can happen to a call of several statements: also a failure of a later
\* statement, and a KeyboardInterrupt between two statements.
TxOutcomes == DbOutcomes \cup {"execute2_fails", "interrupted"}

\* The store at the point the with block is left: untouched when the connect or
\* the first statement fails, after the first statement when the second fails or
\* the interrupt arrives, after all statements otherwise.
BlockEnd(outcome, db, after1, afterAll) ==
    CASE outcome \in {"ok", "commit_fails"}            -> afterAll
      [] outcome \in {"execute2_fails", "interrupted"} -> after1
      [] OTHER                                         -> db

\* A value of a result row: NULL, or the number sqrt(num / den) when root, else
\* num / den.
Null         == [null |-> TRUE,  num |-> 0, den |-> 1, root |-> FALSE]
Number(n, d) == [null |-> FALSE, num |-> n, den |-> d, root |-> FALSE]
Root(n, d)   == [null |-> FALSE, num |-> n, den |-> d, root |-> TRUE]
Zero         == Number(0, 1)

\* Python's truth value of a row value: None and 0 are false.
Truthy(x) == ~x.null /\ x.num # 0

\* A faulty conversion: float(x), which lets NULL through.
FloatOnly(x) == x

\* float(x or 0)
FloatOr0(x) == IF Truthy(x) THEN x ELSE Zero

\* _get_conn around a block of statements: db is the store before, done the
\* store once the statements have run.  The block commits as a whole or is
\* rolled back; a sequence (BIGSERIAL) keeps what it handed out either way.
\* A faulty connection: every statement is committed as it runs, so that what
\* ran before a failure stays.
GetConnAutocommit(outcome, db, done) ==
    CASE outcome = "ok" ->
            [db |-> done, raised |-> FALSE, interrupted |-> FALSE]
      [] outcome \in {"commit_fails", "execute2_fails"} ->
            [db |-> done, raised |-> TRUE, interrupted |-> FALSE]
      [] outcome \in {"connect_fails", "execute_fails"} ->
            [db |-> db, raised |-> TRUE, interrupted |-> FALSE]
      [] outcome = "interrupted" ->
            [db |-> done, raised |-> FALSE, interrupted |-> TRUE]

\* raised: an Exception leaves the block (after the rollback); interrupted: a
\* KeyboardInterrupt leaves it, which the except clause does not match, and the
\* close drops the open transaction.
_get_conn(outcome, db, done) ==
    LET undone == [db EXCEPT !.seq = done.seq, !.aseq = done.aseq]
    IN  CASE outcome = "ok" ->
                [db |-> done, raised |-> FALSE, interrupted |-> FALSE]
          [] outcome \in {"commit_fails", "execute2_fails"} ->
                [db |-> undone, raised |-> TRUE, interrupted |-> FALSE]
          [] outcome \in {"connect_fails", "execute_fails"} ->
                [db |-> db, raised |-> TRUE, interrupted |-> FALSE]
          [] outcome = "interrupted" ->
                [db |-> undone, raised |-> FALSE, interrupted |-> TRUE]

\* A faulty insert: no conflict clause and no unique timestamp.
InsertStatsAlways(db, t, cpu, ram) ==
    [db EXCEPT !.rows = @ \cup {[id |-> db.seq + 1, timestamp |-> t,
                                 cpu |-> cpu, ram |-> ram]},
               !.seq  = @ + 1]

\* INSERT INTO stats (timestamp, cpu, ram) VALUES (t, cpu, ram)
\* ON CONFLICT (timestamp) DO NOTHING, under timestamp UNIQUE NOT NULL.
InsertStats(db, t, cpu, ram) ==
    IF \E r \in db.rows : r.timestamp = t
    THEN [db EXCEPT !.seq = @ + 1]
    ELSE [db EXCEPT !.rows = @ \cup {[id |-> db.seq + 1, timestamp |-> t,
                                      cpu |-> cpu, ram |-> ram]},
                    !.seq  = @ + 1]

\* save(cpu, ram) at clock reading t: the store after the call, what the caller
\* gets (a value, or an exception: raised) and whether [ERROR] was printed.
save(cpu, ram, t, outcome, db) ==
    LET after == InsertStats(db, t, cpu, ram)
        tx    == _get_conn(outcome, db, BlockEnd(outcome, db, after, after))
    IN  [db |-> tx.db, value |-> "None", raised |-> tx.interrupted,
         logged |-> tx.raised]

\* The rows of FROM stats WHERE timestamp > cutoff
Window(db, cutoff) == {r \in db.rows : r.timestamp > cutoff}

\* The values of column col over rows, in any order.
RECURSIVE Column(_, _)
Column(rows, col) ==
    IF rows = {} THEN <<>>
    ELSE LET r == CHOOSE x \in rows : TRUE
         IN  <<r[col]>> \o Column(rows \ {r}, col)

\* COUNT(*), AVG(col), MAX(col), STDDEV(col): the aggregates of PostgreSQL.
\* STDDEV is the sample deviation, NULL over fewer than two rows.
SqlCount(rows) == Cardinality(rows)
SqlAvg(rows, col) ==
    IF rows = {} THEN Null ELSE Number(Sum(Column(rows, col)), Cardinality(rows))
SqlMax(rows, col) ==
    IF rows = {} THEN Null
    ELSE Number(CHOOSE m \in {r[col] : r \in rows} : \A r \in rows : r[col] <= m, 1)
SqlStddev(rows, col) ==
    LET n == Cardinality(rows)
        c == Column(rows, col)
    IN  IF n < 2 THEN Null ELSE Root(n * SumSq(c) - Sum(c) * Sum(c), n * (n - 1))

\* The dictionary get_stats_summary returns when the query fails or is empty.
ZeroSummary ==
    [samples |-> 0, avg_cpu |-> Zero, avg_ram |-> Zero, max_cpu |-> Zero,
     max_ram |-> Zero, stddev_cpu |-> Zero, stddev_ram |-> Zero]

\* get_stats_summary(minutes) at clock reading t
get_stats_summary(minutes, t, outcome, db) ==
    LET w   == Window(db, t - minutes * 60)
        row == <<SqlCount(w), SqlAvg(w, "cpu"), SqlAvg(w, "ram"), SqlMax(w, "cpu"),
                 SqlMax(w, "ram"), SqlStddev(w, "cpu"), SqlStddev(w, "ram")>>
        tx  == _get_conn(outcome, db, db)
    IN  IF ~tx.raised /\ ~tx.interrupted /\ row[1] > 0
        THEN [db |-> tx.db, raised |-> FALSE, logged |-> FALSE,
              value |-> [samples    |-> row[1],
                         avg_cpu    |-> FloatOr0(row[2]),
                         avg_ram    |-> FloatOr0(row[3]),
                         max_cpu    |-> FloatOr0(row[4]),
                         max_ram    |-> FloatOr0(row[5]),
                         stddev_cpu |-> FloatOr0(row[6]),
                         stddev_ram |-> FloatOr0(row[7])]]
        ELSE [db |-> tx.db, raised |-> tx.interrupted, logged |-> tx.raised,
              value |-> ZeroSummary]

\* float(x or 1)
FloatOr1(x) == IF Truthy(x) THEN x ELSE Number(1, 1)

\* The row count from which get_baseline calls a baseline ready.
BASELINE_MIN_SAMPLES == 10

\* A faulty test: a baseline is ready only above the minimum.
BaselineReadyAbove(count) == count > BASELINE_MIN_SAMPLES

\* row[4] and row[4] >= 10
BaselineReady(count) == count # 0 /\ count >= BASELINE_MIN_SAMPLES

\* The dictionary get_baseline returns when the query fails or has too few rows.
DefaultBaseline ==
    [avg_cpu |-> Zero, std_cpu |-> Number(1, 1), avg_ram |-> Zero,
     std_ram |-> Number(1, 1), samples |-> 0, ready |-> FALSE]

\* get_baseline(minutes) at clock reading t
get_baseline(minutes, t, outcome, db) ==
    LET w   == Window(db, t - minutes * 60)
        row == <<SqlAvg(w, "cpu"), SqlStddev(w, "cpu"), SqlAvg(w, "ram"),
                 SqlStddev(w, "ram"), SqlCount(w)>>
        tx  == _get_conn(outcome, db, db)
    IN  IF ~tx.raised /\ ~tx.interrupted /\ BaselineReady(row[5])
        THEN [db |-> tx.db, raised |-> FALSE, logged |-> FALSE,
              value |-> [avg_cpu |-> FloatOr0(row[1]),
                         std_cpu |-> FloatOr1(row[2]),
                         avg_ram |-> FloatOr0(row[3]),
                         std_ram |-> FloatOr1(row[4]),
                         samples |-> row[5],
                         ready   |-> TRUE]]
        ELSE [db |-> tx.db, raised |-> tx.interrupted, logged |-> tx.raised,
              value |-> DefaultBaseline]

\* The four CREATE ... IF NOT EXISTS statements of init_db.
CreateSchema(db) == [db EXCEPT !.schema = @ \cup SchemaObjects]

\* init_db(): no except clause stands between the block and the caller, and the
\* [DB] line is printed only when the block went through.
init_db(outcome, db) ==
    LET tx == _get_conn(outcome, db, BlockEnd(outcome, db, db, CreateSchema(db)))
    IN  [db |-> tx.db, value |-> "None", raised |-> tx.raised \/ tx.interrupted,
         logged |-> FALSE]

\* The rows as SELECT timestamp, cpu, ram ... ORDER BY timestamp DESC gives them.
RECURSIVE OrderDesc(_)
OrderDesc(rows) ==
    IF rows = {} THEN <<>>
    ELSE LET r == CHOOSE x \in rows : \A y \in rows : y.timestamp <= x.timestamp
         IN  <<[timestamp |-> r.timestamp, cpu |-> r.cpu, ram |-> r.ram]>>
                 \o OrderDesc(rows \ {r})

\* LIMIT 3600
RECENT_LIMIT == 3600

\* get_recent_stats(minutes) at clock reading t
get_recent_stats(minutes, t, outcome, db) ==
    LET found == OrderDesc(Window(db, t - minutes * 60))
        tx    == _get_conn(outcome, db, db)
    IN  IF ~tx.raised /\ ~tx.interrupted
        THEN [db |-> tx.db, raised |-> FALSE, logged |-> FALSE,
              value |-> IF Len(found) <= RECENT_LIMIT THEN found
                        ELSE SubSeq(found, 1, RECENT_LIMIT)]
        ELSE [db |-> tx.db, raised |-> tx.interrupted, logged |-> tx.raised,
              value |-> <<>>]

\* INSERT INTO anomalies (timestamp, metric, value, baseline, stddev, severity)
InsertAnomaly(db, t, a) ==
    [db EXCEPT !.anomalies = @ \cup {[id |-> db.aseq + 1, timestamp |-> t,
                                      metric |-> a.metric, value |-> a.value,
                                      baseline |-> a.baseline, stddev |-> a.stddev,
                                      severity |-> a.severity]},
               !.aseq = @ + 1]

\* log_anomaly(metric, value, baseline, stddev, severity) at clock reading t,
\* a holding the five arguments
log_anomaly(a, t, outcome, db) ==
    LET after == InsertAnomaly(db, t, a)
        tx    == _get_conn(outcome, db, BlockEnd(outcome, db, after, after))
    IN  [db |-> tx.db, value |-> "None", raised |-> tx.interrupted,
         logged |-> tx.raised]

\* A faulty delete: the row on the cutoff goes too.
DeleteUpTo(rows, cutoff) == {r \in rows : r.timestamp > cutoff}

\* DELETE FROM ... WHERE timestamp < cutoff: the rows that stay
DeleteBefore(rows, cutoff) == {r \in rows : ~(r.timestamp < cutoff)}

SECONDS_PER_DAY == 86400

\* cleanup_old_data(days) at clock reading t
cleanup_old_data(days, t, outcome, db) ==
    LET cutoff == t - days * SECONDS_PER_DAY
        after1 == [db EXCEPT !.rows = DeleteBefore(@, cutoff)]
        after2 == [after1 EXCEPT !.anomalies = DeleteBefore(@, cutoff)]
        tx     == _get_conn(outcome, db, BlockEnd(outcome, db, after1, after2))
    IN  [db |-> tx.db, value |-> "None", raised |-> tx.interrupted,
         logged |-> tx.raised]

-----------------------------------------------------------------------------
(* DB_LOCK and the connection: db.py, lines 20 to 33, as each thread goes  *)
(* through `with DB_LOCK: with _get_conn() as conn: ...`                   *)

\* The threads that call persistence operations.
Threads == {"t1", "t2"}

PersistenceOps ==
    {"init_db", "save", "get_recent_stats", "get_stats_summary", "get_baseline",
     "log_anomaly", "cleanup_old_data"}

\* The cur.execute calls in the block of each operation.
Statements(op) ==
    CASE op = "init_db"          -> 4
      [] op = "cleanup_old_data" -> 2
      [] OTHER                   -> 1

\* A thread outside any persistence call, having made n of them.
Idle(n) == [pc |-> "idle", op |-> "none", stmt |-> 0, exc |-> FALSE, calls |-> n]

\* A faulty path: a failed connect leaves the call without passing the end of
\* the `with DB_LOCK` block.
AdvanceLeavingOnConnect(th, ok) ==
    CASE th.pc = "connect" ->
            IF ok THEN [th EXCEPT !.pc = "execute", !.stmt = 1]
            ELSE Idle(th.calls + 1)
      [] th.pc = "execute" ->
            IF ~ok THEN [th EXCEPT !.pc = "rollback", !.exc = TRUE]
            ELSE IF th.stmt < Statements(th.op) THEN [th EXCEPT !.stmt = @ + 1]
            ELSE [th EXCEPT !.pc = "commit"]
      [] th.pc = "commit" ->
            IF ok THEN [th EXCEPT !.pc = "close"]
            ELSE [th EXCEPT !.pc = "rollback", !.exc = TRUE]
      [] th.pc = "rollback" -> [th EXCEPT !.pc = "close"]
      [] th.pc = "close"    -> [th EXCEPT !.pc = "release"]

\* One step of a thread that holds the lock, the step succeeding (ok) or raising:
\* psycopg2.connect (outside the try of _get_conn: a failure goes straight to
\* the end of the `with DB_LOCK` block), the statements, conn.commit, and on an
\* exception conn.rollback; conn.close in the finally clause; then the end of
\* the `with DB_LOCK` block.
Advance(th, ok) ==
    CASE th.pc = "connect" ->
            IF ok THEN [th EXCEPT !.pc = "execute", !.stmt = 1]
            ELSE [th EXCEPT !.pc = "release", !.exc = TRUE]
      [] th.pc = "execute" ->
            IF ~ok THEN [th EXCEPT !.pc = "rollback", !.exc = TRUE]
            ELSE IF th.stmt < Statements(th.op) THEN [th EXCEPT !.stmt = @ + 1]
            ELSE [th EXCEPT !.pc = "commit"]
      [] th.pc = "commit" ->
            IF ok THEN [th EXCEPT !.pc = "close"]
            ELSE [th EXCEPT !.pc = "rollback", !.exc = TRUE]
      [] th.pc = "rollback" -> [th EXCEPT !.pc = "close"]
      [] th.pc = "close"    -> [th EXCEPT !.pc = "release"]

-----------------------------------------------------------------------------
(* Sampling: monitor.py.  A speed is the quotient of two whole numbers and *)
(* is held as the pair, so that its sign and its value stay exact.         *)

\* psutil.net_io_counters(): the fields get_net_speed reads.
Counters(sent, recv) == [bytes_sent |-> sent, bytes_recv |-> recv]

Ratio(num, den) == [num |-> num, den |-> den]

\* x < 0 and x = y, for quotients with non-zero denominators
IsNegative(x) == (x.num < 0 /\ x.den > 0) \/ (x.num > 0 /\ x.den < 0)
SameRatio(x, y) == x.num * y.den = y.num * x.den

\* max(0, x)
Max0(x) == IF IsNegative(x) THEN Ratio(0, 1) ELSE x

KB == 1024
MB == 1048576
GB == 1073741824

\* now - _last_net_time or 1.0
Elapsed(t, last_time) == IF t - last_time = 0 THEN 1 ELSE t - last_time

\* A faulty get_net_speed: the baseline time is stored before the counters are
\* read.
get_net_speed_stores_first(t, net, last_net, last_time) ==
    IF ~net.ok
    THEN [raised |-> TRUE, value |-> <<>>, elapsed |-> 0,
          last_net |-> last_net, last_time |-> t]
    ELSE [raised |-> FALSE, elapsed |-> Elapsed(t, last_time),
          value |-> <<Max0(Ratio(net.bytes_sent - last_net.bytes_sent,
                                  Elapsed(t, last_time) * KB)),
                      Max0(Ratio(net.bytes_recv - last_net.bytes_recv,
                                  Elapsed(t, last_time) * KB))>>,
          last_net |-> Counters(net.bytes_sent, net.bytes_recv), last_time |-> t]

\* get_net_speed() at clock reading t, when psutil.net_io_counters() gives net
\* (or fails: ~net.ok) and the stored baseline is (last_net, last_time): the
\* two speeds, the divisor used and the baseline after the call.
get_net_speed(t, net, last_net, last_time) ==
    IF ~net.ok
    THEN [raised |-> TRUE, value |-> <<>>, elapsed |-> 0,
          last_net |-> last_net, last_time |-> last_time]
    ELSE LET elapsed    == Elapsed(t, last_time)
             sent_speed == Ratio(net.bytes_sent - last_net.bytes_sent, elapsed * KB)
             recv_speed == Ratio(net.bytes_recv - last_net.bytes_recv, elapsed * KB)
         IN  [raised |-> FALSE, elapsed |-> elapsed,
              value |-> <<Max0(sent_speed), Max0(recv_speed)>>,
              last_net |-> Counters(net.bytes_sent, net.bytes_recv),
              last_time |-> t]

\* SystemStats(...): all twelve fields.
SystemStats(cpu, ram, disk, processes, ram_mb, ram_total_mb, disk_free_gb, disk_total_gb, net_sent_mb, net_recv_mb, net_sent_speed, net_recv_speed) ==
    [cpu |-> cpu, ram |-> ram, disk |-> disk, processes |-> processes,
     ram_mb |-> ram_mb, ram_total_mb |-> ram_total_mb,
     disk_free_gb |-> disk_free_gb, disk_total_gb |-> disk_total_gb,
     net_sent_mb |-> net_sent_mb, net_recv_mb |-> net_recv_mb,
     net_sent_speed |-> net_sent_speed, net_recv_speed |-> net_recv_speed]

\* The OS queries of get_stats, in the order it makes them; the last is the
\* counter read inside get_net_speed.
OsQueries ==
    <<"cpu_percent", "virtual_memory", "disk_usage", "pids", "net_io_counters",
      "get_net_speed">>

\* What the except branch returns: the eight fields it names are 0 and the four
\* network fields take the constructor's default, 0.
FailedStats == SystemStats(0, 0, 0, 0, 0, 0, 0, 0, 0, 0, 0, 0)

\* get_stats() at clock reading t, when the OS answers os (os.fails names the
\* query that fails, or is "none"): what the caller gets, whether [ERROR] was
\* printed, and the baseline after the call.
get_stats(os, t, last_net, last_time) ==
    LET speed == get_net_speed(t, [ok |-> os.fails # "get_net_speed",
                                   bytes_sent |-> os.net.bytes_sent,
                                   bytes_recv |-> os.net.bytes_recv],
                               last_net, last_time)
    IN  IF os.fails \in {"cpu_percent", "virtual_memory", "disk_usage", "pids",
                         "net_io_counters"}
        THEN [value |-> FailedStats, raised |-> FALSE, logged |-> TRUE,
              last_net |-> last_net, last_time |-> last_time]
        ELSE IF speed.raised
        THEN [value |-> FailedStats, raised |-> FALSE, logged |-> TRUE,
              last_net |-> speed.last_net, last_time |-> speed.last_time]
        ELSE [value |-> SystemStats(os.cpu, os.ram, os.disk, os.pids,
                                    Ratio(os.ram_used, MB), Ratio(os.ram_total, MB),
                                    Ratio(os.disk_free, GB), Ratio(os.disk_total, GB),
                                    Ratio(os.net.bytes_sent, MB),
                                    Ratio(os.net.bytes_recv, MB),
                                    speed.value[1], speed.value[2]),
              raised |-> FALSE, logged |-> FALSE,
              last_net |-> speed.last_net, last_time |-> speed.last_time]

-----------------------------------------------------------------------------
(* The host and the program's start                                        *)

\* SystemStats, the fields the pipeline reads.
Stats(cpu, ram, disk, up, down) ==
    [cpu |-> cpu, ram |-> ram, disk |-> disk,
     net_sent_speed |-> up, net_recv_speed |-> down]

\* The conditions the host can be in.
Levels == {"calm", "load"}

\* What get_stats returns in the i-th iteration: when calm, a CPU reading that
\* wanders over 48..52 and a quiet disk and downlink; under load, CPU 95, disk 91
\* and a busy downlink.  RAM and the uplink stay where they are.
HostStats(level, i) ==
    IF level = "calm"
    THEN Stats(48 + (i % 5), 72, 40, 10, 20)
    ELSE Stats(95, 72, 91, 10, 300)

\* What the backend does to a call: under load it refuses connections.
HostDb(level) == IF level = "calm" THEN "ok" ELSE "connect_fails"

\* The state once main.py is imported: lines 18 to 59.
InitProgram ==
    /\ cpu_history      = Repeat(0, SPARKLINE_LEN)
    /\ ram_history      = Repeat(0, SPARKLINE_LEN)
    /\ disk_history     = Repeat(0, SPARKLINE_LEN)
    /\ net_up_history   = Repeat(0, SPARKLINE_LEN)
    /\ net_down_history = Repeat(0, SPARKLINE_LEN)
    /\ z_cpu_buf = <<>> /\ z_ram_buf = <<>> /\ z_up_buf = <<>> /\ z_down_buf = <<>>
    /\ z_results = <<>> /\ z_anomalies = <<>>
    /\ alert_log = <<>> /\ _last_alert_time = <<>>
    /\ fired = <<>> /\ calls = <<>>
    /\ stats_rows = {} /\ stats_seq = 0
    /\ tick = 0 /\ changes = 0 /\ samples = <<>>
    /\ ret = [op |-> "start"]
    /\ anomalies_rows = {} /\ anomalies_seq = 0
    /\ schema = SchemaObjects
    /\ DB_LOCK = "free" /\ threads = [t \in Threads |-> Idle(0)]
    /\ _last_net = Counters(0, 0) /\ _last_net_time = 0
    /\ pc = "get_stats" /\ loop_stats = Stats(0, 0, 0, 0, 0)
    /\ loop_anomalies = <<>> /\ stages = <<>>

-----------------------------------------------------------------------------
(* main's loop                                                             *)

Init ==
    /\ InitProgram
    /\ now = StartTime
    /\ env \in Levels

\* One iteration of main's while loop, in which get_stats returns stats and the
\* backend answers save with backend: get_stats, save,
\* the history appends, run_zscore, the loop over anomalies, make_layout (whose
\* build_status logs the threshold alerts) and the sleep.
Iteration(stats, backend) ==
    \E saved \in {save(stats.cpu, stats.ram, now, backend,
                       Store)} :
    \E z \in {run_zscore(stats.cpu, stats.ram, stats.net_sent_speed,
                         stats.net_recv_speed,
                         [cpu |-> z_cpu_buf, ram |-> z_ram_buf,
                          up |-> z_up_buf, down |-> z_down_buf])} :
    \E st1 \in {LogAnomalies(z.anomalies, now,
                             [log |-> alert_log, last |-> _last_alert_time,
                              fired |-> fired, calls |-> <<>>])} :
    \E st2 \in {build_status(stats, now, st1)} :
        /\ stats_rows' = saved.db.rows
        /\ stats_seq'  = saved.db.seq
        /\ cpu_history'      = DequeAppend(cpu_history, stats.cpu, SPARKLINE_LEN)
        /\ ram_history'      = DequeAppend(ram_history, stats.ram, SPARKLINE_LEN)
        /\ disk_history'     = DequeAppend(disk_history, stats.disk, SPARKLINE_LEN)
        /\ net_up_history'   = DequeAppend(net_up_history, stats.net_sent_speed,
                                           SPARKLINE_LEN)
        /\ net_down_history' = DequeAppend(net_down_history, stats.net_recv_speed,
                                           SPARKLINE_LEN)
        /\ z_cpu_buf'  = z.bufs.cpu
        /\ z_ram_buf'  = z.bufs.ram
        /\ z_up_buf'   = z.bufs.up
        /\ z_down_buf' = z.bufs.down
        /\ z_results'   = z.z_results
        /\ z_anomalies' = z.z_anomalies
        /\ alert_log'        = st2.log
        /\ _last_alert_time' = st2.last
        /\ fired'            = st2.fired
        /\ calls'            = st2.calls
        /\ ret' = [op |-> "run_zscore", value |-> z.anomalies]
        /\ samples' = Append(samples, stats)
        /\ now' = now + REFRESH_RATE

Tick ==
    /\ tick < MaxTicks
    /\ \E e \in Levels :
        /\ e = env \/ changes < MaxChanges
        /\ env' = e
        /\ changes' = IF e = env THEN changes ELSE changes + 1
        /\ Iteration(HostStats(e, tick), HostDb(e))
    /\ tick' = tick + 1
    /\ UNCHANGED restVars

Next == Tick

Spec == Init /\ [][Next]_vars

-----------------------------------------------------------------------------
(* Properties of main's loop, under Spec                                   *)

\* The values of one field of the consumed snapshots, in order.
Fed(field) == [i \in 1..Len(samples) |-> samples[i][field]]

\* The field of SystemStats behind each label of run_zscore.
FieldOf(label) ==
    CASE label = "CPU"          -> "cpu"
      [] label = "RAM"          -> "ram"
      [] label = "Net Upload"   -> "net_sent_speed"
      [] label = "Net Download" -> "net_recv_speed"

LabelSet == {ZLabels[i] : i \in 1..Len(ZLabels)}

\* C1: once more than C values have been pushed, a series of capacity C holds
\* exactly the C most recently pushed values, oldest first: the five display
\* histories (C = 24) and the four statistics buffers (C = 60).
C1_SeriesHoldsLastC ==
    /\ Len(samples) > SPARKLINE_LEN =>
        /\ cpu_history      = LastN(Fed("cpu"), SPARKLINE_LEN)
        /\ ram_history      = LastN(Fed("ram"), SPARKLINE_LEN)
        /\ disk_history     = LastN(Fed("disk"), SPARKLINE_LEN)
        /\ net_up_history   = LastN(Fed("net_sent_speed"), SPARKLINE_LEN)
        /\ net_down_history = LastN(Fed("net_recv_speed"), SPARKLINE_LEN)
    /\ Len(samples) > Z_WINDOW =>
        /\ z_cpu_buf  = LastN(Fed("cpu"), Z_WINDOW)
        /\ z_ram_buf  = LastN(Fed("ram"), Z_WINDOW)
        /\ z_up_buf   = LastN(Fed("net_sent_speed"), Z_WINDOW)
        /\ z_down_buf = LastN(Fed("net_recv_speed"), Z_WINDOW)

\* More than 60 pushes, of values that differ, so that order and eviction show.
C1_Witness ==
    /\ Len(samples) > Z_WINDOW
    /\ z_cpu_buf[1] # z_cpu_buf[Z_WINDOW]
    /\ z_cpu_buf[1] # samples[1].cpu
    /\ cpu_history[1] # cpu_history[SPARKLINE_LEN]

\* C2: calls 1 to Z_MIN_SAMPLES - 1 of run_zscore return no anomalies and leave
\* z_results and z_anomalies empty; from call Z_MIN_SAMPLES on there is a result
\* for each of the four tracked metrics.
C2_WarmUp ==
    /\ (Len(samples) >= 1 /\ Len(samples) < Z_MIN_SAMPLES) =>
        /\ ret.value = <<>>
        /\ DOMAIN z_results = {}
        /\ z_anomalies = <<>>
    /\ Len(samples) >= Z_MIN_SAMPLES => DOMAIN z_results = LabelSet

\* The Z_MIN_SAMPLES-th call flags a metric.
C2_Witness ==
    /\ Len(samples) = Z_MIN_SAMPLES
    /\ z_anomalies # <<>>
    /\ ret.value # <<>>

\* Every value fed for the label so far is the same.
ConstantFeed(label) ==
    \A i \in 1..Len(samples) : samples[i][FieldOf(label)] = samples[1][FieldOf(label)]

\* C3: a metric fed one constant value has, on every call from warm-up on,
\* z = 0 and flagged = false, and no description is returned for it.
C3_ConstantNeverFlagged ==
    \A l \in LabelSet :
        (Len(samples) >= Z_MIN_SAMPLES /\ ConstantFeed(l)) =>
            /\ z_results[l].z = "zero"
            /\ ~z_results[l].flagged
            /\ \A i \in 1..Len(ret.value) : ret.value[i].label # l

\* A constant metric beside a flagged one, with the window full and sliding.
C3_Witness ==
    /\ Len(samples) > Z_WINDOW
    /\ ConstantFeed("RAM")
    /\ z_results["RAM"].z = "zero"
    /\ z_anomalies # <<>>

\* |value - mean| > Z_THRESHOLD * std and std >= 0.01, for the population mean
\* and deviation of the window w and the value last pushed into it, in whole
\* numbers: with n = Len(w), both sides of the first are multiplied by n and
\* squared, and the second is 10000 * n^2 * std^2 >= n^2.
BeyondThreshold(w) ==
    LET n   == Len(w)
        dev == n * w[n] - Sum(w)
        var == n * SumSq(w) - Sum(w) * Sum(w)
    IN  /\ dev * dev > Z_THRESHOLD * Z_THRESHOLD * var
        /\ (var > n * n \/ 10000 * var >= n * n)

\* C4: after warm-up a metric is flagged exactly when its value is more than
\* Z_THRESHOLD population deviations from the population mean of its window,
\* the window being the last Z_WINDOW values fed including the one scored, and
\* the deviation is at least 0.01; the descriptions returned are those of the
\* flagged metrics.
C4_FlaggedIffBeyondThreshold ==
    Len(samples) >= Z_MIN_SAMPLES =>
        /\ \A l \in LabelSet :
            z_results[l].flagged <=> BeyondThreshold(LastN(Fed(FieldOf(l)), Z_WINDOW))
        /\ {ret.value[i].label : i \in 1..Len(ret.value)}
               = {l \in LabelSet : z_results[l].flagged}
        /\ Len(ret.value) = Cardinality({l \in LabelSet : z_results[l].flagged})

\* After warm-up, two metrics are flagged and two, which are flat, are not.
C4_Witness ==
    /\ Len(samples) >= Z_MIN_SAMPLES
    /\ z_results["CPU"].flagged /\ z_results["CPU"].z = "pos"
    /\ z_results["Net Download"].flagged
    /\ ~z_results["RAM"].flagged
    /\ Len(ret.value) = 2

\* The last alert of the source and label of call c that fired before c: its
\* clock reading, or 0 when there is none.
LastOwnFire(c) ==
    LET own == {i \in 1..c.before : /\ fired[i].msg.src = c.msg.src
                                    /\ fired[i].msg.label = c.msg.label}
    IN  IF own = {} THEN 0
        ELSE fired[CHOOSE i \in own : \A j \in own : j <= i].t

\* C7: a threshold alert has the key cpu, ram or disk and a z-score alert the
\* key z_ + first word of its label, so whether an alert of one kind on CPU or
\* RAM surfaces depends on the earlier alerts of its own kind on that metric
\* only, never on the other kind's.
C7_SourcesDoNotSuppressEachOther ==
    \A i \in 1..Len(calls) :
        LET c == calls[i]
        IN  /\ c.msg.src = "threshold" => c.key \in Metrics
            /\ c.msg.src = "zscore" => c.key = "z_" \o Head(Words(c.msg.label))
            /\ c.msg.label \in {"CPU", "RAM"} =>
                (c.surfaced <=> c.t - LastOwnFire(c) >= ALERT_COOLDOWN)

\* In one iteration a z-score alert and a threshold alert on CPU both surface.
C7_Witness ==
    /\ \E i \in 1..Len(calls) :
        calls[i].msg.src = "zscore" /\ calls[i].msg.label = "CPU" /\ calls[i].surfaced
    /\ \E i \in 1..Len(calls) :
        calls[i].msg.src = "threshold" /\ calls[i].msg.label = "CPU" /\ calls[i].surfaced

-----------------------------------------------------------------------------
(* The alert governor on its own: _log_alert called with any key, at any   *)
(* reading of a clock that does not go back                                *)

\* The calls made: (key, message) as build_status and main form them.
AlertInputs ==
    { <<"cpu",   ThresholdMsg("CPU", "CRITICAL", 95)>>,
      <<"cpu",   ThresholdMsg("CPU", "WARNING", 65)>>,
      <<"z_CPU", ZMsg(Describe("CPU", 95, "pos"))>> }

\* By how much the clock moves between calls: just under and just at the cooldown.
ClockSteps == {ALERT_COOLDOWN - 1, ALERT_COOLDOWN}

\* The clock starts at 0 (a test's clock) or at the loop's start time.
InitAlert ==
    /\ InitProgram
    /\ now \in {0, StartTime}
    /\ env = "calm"

LogAlert ==
    /\ \E in \in AlertInputs :
        \E st \in {_log_alert(in[1], in[2], now,
                              [log |-> alert_log, last |-> _last_alert_time,
                               fired |-> fired, calls |-> <<>>])} :
            /\ alert_log'        = st.log
            /\ _last_alert_time' = st.last
            /\ fired'            = st.fired
            /\ calls'            = st.calls
    /\ ret' = [op |-> "_log_alert"]
    /\ UNCHANGED <<now, envVars, histVars, zVars, dbVars, restVars>>

AdvanceClock ==
    /\ tick < MaxAdvances
    /\ \E dt \in ClockSteps : now' = now + dt
    /\ tick' = tick + 1
    /\ UNCHANGED <<env, changes, samples, histVars, zVars, alertVars, dbVars, ret,
                   restVars>>

NextAlert == LogAlert \/ AdvanceClock

SpecAlert == InitAlert /\ [][NextAlert]_vars

-----------------------------------------------------------------------------
(* Properties of the alert governor, under SpecAlert                       *)

\* The alerts of key that fired among the first n: their places in fired.
FiresOf(key, n) == {i \in 1..n : fired[i].key = key}

\* C5: under a clock that does not go back, two entries for one key never enter
\* the alert log less than ALERT_COOLDOWN seconds apart, and a call for a key
\* ALERT_COOLDOWN seconds or more after that key last fired does add an entry.
C5_CooldownPerKey ==
    /\ \A i, j \in 1..Len(fired) :
        (i < j /\ fired[i].key = fired[j].key)
            => fired[j].t - fired[i].t >= ALERT_COOLDOWN
    /\ \A k \in 1..Len(calls) :
        LET c    == calls[k]
            past == FiresOf(c.key, c.before)
        IN  (past # {} /\ \A i \in past : c.t - fired[i].t >= ALERT_COOLDOWN)
                => c.surfaced

\* A key fires, a call for it 59 seconds later is suppressed, and the call
\* exactly ALERT_COOLDOWN seconds after the fire adds the second entry.
C5_Witness ==
    /\ Len(calls) = 1 /\ calls[1].surfaced
    /\ \E i \in FiresOf(calls[1].key, calls[1].before) :
        calls[1].t - fired[i].t = ALERT_COOLDOWN

\* C6: the alert log holds at most 5 entries, the most recent first: it is the
\* last 5 alerts that fired, newest to oldest, so a full log loses its oldest
\* entry and no other.
C6_AlertLogNewestFirst ==
    /\ Len(alert_log) <= ALERT_LOG_LEN
    /\ Len(alert_log) = IF Len(fired) < ALERT_LOG_LEN THEN Len(fired) ELSE ALERT_LOG_LEN
    /\ \A i \in 1..Len(alert_log) :
        /\ alert_log[i].msg = fired[Len(fired) - i + 1].msg
        /\ alert_log[i].ts  = fired[Len(fired) - i + 1].t % 86400

\* More alerts have fired than the log holds.
C6_Witness ==
    /\ Len(fired) > ALERT_LOG_LEN
    /\ Len(alert_log) = ALERT_LOG_LEN
    /\ alert_log[1] # alert_log[ALERT_LOG_LEN]

-----------------------------------------------------------------------------
(* _threshold on its own, between calls of _log_alert                      *)

ThresholdValues == {0, 59, 60, 69, 70, 84, 85, 89, 90, 100}

\* The metric kinds passed: those of THRESHOLDS and one it does not list.
ThresholdKinds == Metrics \cup {"net"}

Classify ==
    /\ \E value \in ThresholdValues, metric \in ThresholdKinds :
        ret' = [op |-> "_threshold", value |-> value, metric |-> metric,
                result |-> _threshold(value, metric)]
    /\ UNCHANGED <<now, envVars, histVars, zVars, alertVars, dbVars, restVars>>

NextThreshold == Classify \/ LogAlert

SpecThreshold == InitAlert /\ [][NextThreshold]_vars

-----------------------------------------------------------------------------
(* The persistence layer on its own: save and get_stats_summary called at  *)
(* any clock reading, whatever the backend does                            *)

SavedCpu == {50, 70}
SavedRam == {60}
SummaryMinutes == {1, 60}

InitDb ==
    /\ InitProgram
    /\ now = StartTime
    /\ env = "calm"

Save ==
    /\ stats_seq < MaxSaves
    /\ \E cpu \in SavedCpu, ram \in SavedRam, outcome \in DbOutcomes :
        \E r \in {save(cpu, ram, now, outcome,
                       Store)} :
            /\ stats_rows' = r.db.rows
            /\ stats_seq'  = r.db.seq
            /\ ret' = [op |-> "save", t |-> now, cpu |-> cpu, ram |-> ram,
                       outcome |-> outcome, before |-> stats_rows,
                       value |-> r.value, raised |-> r.raised, logged |-> r.logged]
    /\ UNCHANGED <<now, envVars, histVars, zVars, alertVars, restVars>>

GetStatsSummary ==
    /\ \E minutes \in SummaryMinutes, outcome \in DbOutcomes :
        \E r \in {get_stats_summary(minutes, now, outcome,
                                    Store)} :
            /\ stats_rows' = r.db.rows
            /\ stats_seq'  = r.db.seq
            /\ ret' = [op |-> "get_stats_summary", t |-> now, minutes |-> minutes,
                       outcome |-> outcome, before |-> stats_rows,
                       value |-> r.value, raised |-> r.raised, logged |-> r.logged]
    /\ UNCHANGED <<now, envVars, histVars, zVars, alertVars, restVars>>

NextDb == Save \/ GetStatsSummary \/ AdvanceClock

SpecDb == InitDb /\ [][NextDb]_vars

-----------------------------------------------------------------------------
(* Properties of _threshold, under SpecThreshold                           *)

\* The warning and critical marks the claim gives for each metric kind.
MarksOf(metric) ==
    CASE metric = "cpu"  -> <<60, 85>>
      [] metric = "ram"  -> <<70, 85>>
      [] metric = "disk" -> <<70, 90>>
      [] OTHER           -> <<70, 85>>

\* The status of the last _threshold call is the band of its value.
ThresholdBands ==
    ret.op = "_threshold" =>
        LET warning  == MarksOf(ret.metric)[1]
            critical == MarksOf(ret.metric)[2]
            status   == ret.result[2]
        IN  /\ status \in {"NORMAL", "WARNING", "CRITICAL"}
            /\ status = "CRITICAL" <=> ret.value >= critical
            /\ status = "WARNING"  <=> (warning <= ret.value /\ ret.value < critical)
            /\ status = "NORMAL"   <=> ret.value < warning

\* A _threshold call leaves the histories, the cooldown times, the alert log and
\* the store as they were.
ThresholdFrame ==
    (ret'.op = "_threshold" /\ ret' # ret)
        => UNCHANGED <<histVars, zVars, alertVars, dbVars>>

\* C8: _threshold(value, metric) returns CRITICAL iff value >= critical, WARNING
\* iff warning <= value < critical and NORMAL otherwise, for the marks of the
\* metric kind (70 and 85 for a kind THRESHOLDS does not list), whatever the
\* alert state, and changes no history, cooldown or alert-log state.
C8_ThresholdPure == []ThresholdBands /\ [][ThresholdFrame]_vars

\* A value on the warning mark of the default pair, classified for an unlisted
\* kind after an alert has fired.
C8_Witness ==
    /\ ret.op = "_threshold" /\ ret.metric = "net" /\ ret.value = 70
    /\ ret.result[2] = "WARNING"
    /\ fired # <<>>

-----------------------------------------------------------------------------
(* Properties of the persistence layer, under SpecDb                       *)

\* C9: no two stats rows share a timestamp, and a save that meets a row with
\* its own timestamp leaves the rows as they were (the first call's cpu and ram
\* stay) and, when the backend serves it, raises and prints nothing.
C9_SaveIdempotentByTimestamp ==
    /\ \A r1, r2 \in stats_rows : r1.timestamp = r2.timestamp => r1 = r2
    /\ (ret.op = "save" /\ \E r \in ret.before : r.timestamp = ret.t) =>
        /\ stats_rows = ret.before
        /\ ~ret.raised
        /\ ret.outcome = "ok" => ~ret.logged

\* A second save at the timestamp of a stored row, with another cpu value,
\* served by the backend.
C9_Witness ==
    /\ ret.op = "save" /\ ret.outcome = "ok"
    /\ \E r \in ret.before : r.timestamp = ret.t /\ r.cpu # ret.cpu
    /\ Cardinality({r \in stats_rows : r.timestamp = ret.t}) = 1

SummaryFields == {"avg_cpu", "avg_ram", "max_cpu", "max_ram", "stddev_cpu", "stddev_ram"}

\* The rows the last call's window covers.
InWindow == {r \in stats_rows : r.timestamp > ret.t - ret.minutes * 60}

\* C10: get_stats_summary returns all seven fields as numbers and raises
\* nothing; with no row in the window, or a failed query, every field is zero;
\* with rows, samples is their count and a deviation over a single row (NULL in
\* the store) is reported as 0.
C10_SummaryNeverNull ==
    ret.op = "get_stats_summary" =>
        /\ ~ret.raised
        /\ DOMAIN ret.value = SummaryFields \cup {"samples"}
        /\ ret.value.samples \in Nat
        /\ \A f \in SummaryFields : ~ret.value[f].null
        /\ (InWindow = {} \/ ret.outcome # "ok") =>
            /\ ret.value.samples = 0
            /\ \A f \in SummaryFields : ret.value[f].num = 0
        /\ (InWindow # {} /\ ret.outcome = "ok") =>
            /\ ret.value.samples = Cardinality(InWindow)
            /\ \A r \in InWindow : ret.value.max_cpu.num >= r.cpu
            /\ Cardinality(InWindow) = 1 =>
                ret.value.stddev_cpu.num = 0 /\ ret.value.stddev_ram.num = 0

\* A summary over exactly one row: the averages are there, the deviations 0.
C10_Witness ==
    /\ ret.op = "get_stats_summary" /\ ret.outcome = "ok"
    /\ Cardinality(InWindow) = 1
    /\ Cardinality(stats_rows) > 1
    /\ ret.value.samples = 1
    /\ ret.value.avg_cpu.num > 0
    /\ ret.value.stddev_cpu.num = 0

-----------------------------------------------------------------------------
(* get_baseline over the rows main's loop stores, one a second             *)

BaselineMinutes == {1, 30}

\* What the loop stores in its i-th iteration: a steady CPU when the host is
\* calm, a CPU that moves under load; RAM is steady throughout.
StoredCpu(level, i) == IF level = "calm" THEN 50 ELSE 60 + 10 * (i % 3)
StoredRam == 60

\* main's save(stats.cpu, stats.ram), served by the backend, and the sleep that
\* ends the iteration.
SaveSample ==
    /\ stats_seq < MaxRows
    /\ \E r \in {save(StoredCpu(env, stats_seq), StoredRam, now, "ok",
                      Store)} :
        /\ stats_rows' = r.db.rows
        /\ stats_seq'  = r.db.seq
        /\ ret' = [op |-> "save", t |-> now, cpu |-> StoredCpu(env, stats_seq),
                   ram |-> StoredRam, outcome |-> "ok", before |-> stats_rows,
                   value |-> r.value, raised |-> r.raised, logged |-> r.logged]
    /\ now' = now + REFRESH_RATE
    /\ UNCHANGED <<envVars, histVars, zVars, alertVars, restVars>>

GetBaseline ==
    /\ \E minutes \in BaselineMinutes, outcome \in DbOutcomes :
        \E r \in {get_baseline(minutes, now, outcome,
                               Store)} :
            /\ stats_rows' = r.db.rows
            /\ stats_seq'  = r.db.seq
            /\ ret' = [op |-> "get_baseline", t |-> now, minutes |-> minutes,
                       outcome |-> outcome, value |-> r.value,
                       raised |-> r.raised, logged |-> r.logged]
    /\ UNCHANGED <<now, envVars, histVars, zVars, alertVars, restVars>>

NextBaseline == SaveSample \/ GetBaseline \/ AdvanceClock

SpecBaseline == Init /\ [][NextBaseline]_vars

\* C11: get_baseline returns ready = true exactly when its query is served and
\* at least 10 stats rows lie in the window; with fewer rows, or a failed
\* query, it returns ready = false, both averages 0 and both deviations 1.0;
\* std_cpu and std_ram are non-zero in every baseline it returns.
C11_BaselineReadyFromTen ==
    ret.op = "get_baseline" =>
        LET n == Cardinality(InWindow)
        IN  /\ ~ret.raised
            /\ ret.value.ready <=> (n >= 10 /\ ret.outcome = "ok")
            /\ (n < 10 \/ ret.outcome # "ok") =>
                /\ ret.value.avg_cpu = Zero /\ ret.value.avg_ram = Zero
                /\ ret.value.std_cpu = Number(1, 1)
                /\ ret.value.std_ram = Number(1, 1)
            /\ ~ret.value.std_cpu.null /\ ret.value.std_cpu.num # 0
            /\ ~ret.value.std_ram.null /\ ret.value.std_ram.num # 0

\* Exactly ten rows in the window, an eleventh outside it: the baseline is ready,
\* the deviation of the moving CPU is the store's, that of the steady RAM (0 in
\* the store) is 1.0.
C11_Witness ==
    /\ ret.op = "get_baseline" /\ ret.outcome = "ok"
    /\ Cardinality(InWindow) = 10 /\ Cardinality(stats_rows) = 11
    /\ ret.value.ready /\ ret.value.samples = 10
    /\ ret.value.std_cpu.root /\ ret.value.std_cpu.num > 0
    /\ ret.value.std_ram = Number(1, 1)

-----------------------------------------------------------------------------
(* The seven persistence operations, called in any order at any clock      *)
(* reading, whatever the backend does                                      *)

\* The backend failures of a call: the store is unavailable or a statement or
\* the commit fails.
BackendFailures == {"connect_fails", "execute_fails", "commit_fails", "execute2_fails"}

\* What becomes of the store variables when a call returns r.
StoreBecomes(r) ==
    /\ stats_rows'     = r.db.rows
    /\ stats_seq'      = r.db.seq
    /\ anomalies_rows' = r.db.anomalies
    /\ anomalies_seq'  = r.db.aseq
    /\ schema'         = r.db.schema

\* The record of a call: its name and arguments, the store it met and what it
\* gave back.
Returned(op, args, outcome, r) ==
    [op |-> op, t |-> now, args |-> args, outcome |-> outcome, before |-> Store,
     value |-> r.value, raised |-> r.raised, logged |-> r.logged]

InitDbCall ==
    /\ \E outcome \in TxOutcomes :
        \E r \in {init_db(outcome, Store)} :
            /\ StoreBecomes(r)
            /\ ret' = Returned("init_db", <<>>, outcome, r)
    /\ UNCHANGED <<now, envVars, histVars, zVars, alertVars, DB_LOCK, threads, _last_net, _last_net_time, pc, loop_stats, loop_anomalies, stages>>

SaveCall ==
    /\ stats_seq < MaxSaves
    /\ \E cpu \in {50}, ram \in SavedRam, outcome \in TxOutcomes \ {"execute2_fails"} :
        \E r \in {save(cpu, ram, now, outcome, Store)} :
            /\ StoreBecomes(r)
            /\ ret' = Returned("save", <<cpu, ram>>, outcome, r)
    /\ UNCHANGED <<now, envVars, histVars, zVars, alertVars, DB_LOCK, threads, _last_net, _last_net_time, pc, loop_stats, loop_anomalies, stages>>

GetRecentStatsCall ==
    /\ \E minutes \in {1}, outcome \in DbOutcomes :
        \E r \in {get_recent_stats(minutes, now, outcome, Store)} :
            /\ StoreBecomes(r)
            /\ ret' = Returned("get_recent_stats", <<minutes>>, outcome, r)
    /\ UNCHANGED <<now, envVars, histVars, zVars, alertVars, DB_LOCK, threads, _last_net, _last_net_time, pc, loop_stats, loop_anomalies, stages>>

GetStatsSummaryCall ==
    /\ \E minutes \in SummaryMinutes, outcome \in DbOutcomes :
        \E r \in {get_stats_summary(minutes, now, outcome, Store)} :
            /\ StoreBecomes(r)
            /\ ret' = Returned("get_stats_summary", <<minutes>>, outcome, r)
    /\ UNCHANGED <<now, envVars, histVars, zVars, alertVars, DB_LOCK, threads, _last_net, _last_net_time, pc, loop_stats, loop_anomalies, stages>>

GetBaselineCall ==
    /\ \E minutes \in BaselineMinutes, outcome \in DbOutcomes :
        \E r \in {get_baseline(minutes, now, outcome, Store)} :
            /\ StoreBecomes(r)
            /\ ret' = Returned("get_baseline", <<minutes>>, outcome, r)
    /\ UNCHANGED <<now, envVars, histVars, zVars, alertVars, DB_LOCK, threads, _last_net, _last_net_time, pc, loop_stats, loop_anomalies, stages>>

LogAnomalyCall ==
    /\ anomalies_seq < MaxAnomalies
    /\ \E a \in {[metric |-> "cpu", value |-> 95, baseline |-> 50, stddev |-> 2,
                   severity |-> "critical"]}, outcome \in TxOutcomes \ {"execute2_fails"} :
        \E r \in {log_anomaly(a, now, outcome, Store)} :
            /\ StoreBecomes(r)
            /\ ret' = Returned("log_anomaly", <<a>>, outcome, r)
    /\ UNCHANGED <<now, envVars, histVars, zVars, alertVars, DB_LOCK, threads, _last_net, _last_net_time, pc, loop_stats, loop_anomalies, stages>>

CleanupOldDataCall ==
    /\ \E days \in {0, 1}, outcome \in TxOutcomes :
        \E r \in {cleanup_old_data(days, now, outcome, Store)} :
            /\ StoreBecomes(r)
            /\ ret' = Returned("cleanup_old_data", <<days>>, outcome, r)
    /\ UNCHANGED <<now, envVars, histVars, zVars, alertVars, DB_LOCK, threads, _last_net, _last_net_time, pc, loop_stats, loop_anomalies, stages>>

\* The loop's sleep between two calls.
Sleep ==
    /\ tick < MaxAdvances
    /\ now' = now + REFRESH_RATE
    /\ tick' = tick + 1
    /\ UNCHANGED <<env, changes, samples, histVars, zVars, alertVars, dbVars, ret,
                   restVars>>

NextPersistence ==
    \/ InitDbCall \/ SaveCall \/ GetRecentStatsCall \/ GetStatsSummaryCall
    \/ GetBaselineCall \/ LogAnomalyCall \/ CleanupOldDataCall \/ Sleep

SpecPersistence == InitDb /\ [][NextPersistence]_vars

\* A day passes between two calls.
AdvanceDay ==
    /\ tick < MaxAdvances
    /\ now' = now + SECONDS_PER_DAY
    /\ tick' = tick + 1
    /\ UNCHANGED <<env, changes, samples, histVars, zVars, alertVars, dbVars, ret,
                   restVars>>

\* The writing operations alone, under a clock that moves by days.
NextTx == SaveCall \/ LogAnomalyCall \/ CleanupOldDataCall \/ AdvanceDay

SpecTx == InitDb /\ [][NextTx]_vars

\* C12: a persistence operation that meets a backend failure (a refused
\* connection, a failed statement, a failed commit) returns normally to its
\* caller, the failure logged and no exception propagated.
C12_NoOperationRaises ==
    (ret.op \in PersistenceOps /\ ret.outcome \in BackendFailures) =>
        ~ret.raised /\ ret.logged

-----------------------------------------------------------------------------
(* The sampler on its own: get_net_speed and get_stats called with any     *)
(* counter values, at any clock reading                                    *)


\* What psutil.net_io_counters() gives: counters that rise, fall (an interface
\* restart) or stand, or a failure.
NetReadings ==
    {[ok |-> ok, bytes_sent |-> sent, bytes_recv |-> recv] :
        ok \in BOOLEAN, sent \in {0, 2048, 4096}, recv \in {1024}}
    \cup {[ok |-> TRUE, bytes_sent |-> 2048, bytes_recv |-> 5120]}

\* What the OS answers get_stats: fixed readings, any counters, any one query
\* failing.
OsReadings ==
    {[fails |-> f, cpu |-> 37, ram |-> 72, ram_used |-> 3 * MB, ram_total |-> 4 * MB,
      disk |-> 40, disk_free |-> GB, disk_total |-> GB, pids |-> 200,
      net |-> Counters(n.bytes_sent, n.bytes_recv)] :
        f \in {"none"} \cup {OsQueries[i] : i \in 1..Len(OsQueries)},
        n \in {m \in NetReadings : m.ok}}

InitNet ==
    /\ InitProgram
    /\ now = 0
    /\ env = "calm"

GetNetSpeedCall ==
    /\ \E t \in 0..MaxClock, net \in NetReadings :
        \E r \in {get_net_speed(t, net, _last_net, _last_net_time)} :
            /\ _last_net'      = r.last_net
            /\ _last_net_time' = r.last_time
            /\ now' = t
            /\ ret' = [op |-> "get_net_speed", t |-> t, net |-> net,
                       last_net |-> _last_net, last_time |-> _last_net_time,
                       value |-> r.value, raised |-> r.raised,
                       elapsed |-> r.elapsed]
    /\ UNCHANGED <<envVars, histVars, zVars, alertVars, dbVars, anomalies_rows, anomalies_seq, schema, DB_LOCK, threads,
                   pc, loop_stats, loop_anomalies, stages>>

GetStatsCall ==
    /\ \E t \in 0..MaxClock, os \in OsReadings :
        \E r \in {get_stats(os, t, _last_net, _last_net_time)} :
            /\ _last_net'      = r.last_net
            /\ _last_net_time' = r.last_time
            /\ now' = t
            /\ ret' = [op |-> "get_stats", t |-> t, os |-> os,
                       last_net |-> _last_net, last_time |-> _last_net_time,
                       value |-> r.value, raised |-> r.raised, logged |-> r.logged]
    /\ UNCHANGED <<envVars, histVars, zVars, alertVars, dbVars, anomalies_rows, anomalies_seq, schema, DB_LOCK, threads,
                   pc, loop_stats, loop_anomalies, stages>>

NextNet == GetNetSpeedCall \/ GetStatsCall

SpecNet == InitNet /\ [][NextNet]_vars

StatsFields ==
    {"cpu", "ram", "disk", "processes", "ram_mb", "ram_total_mb", "disk_free_gb",
     "disk_total_gb", "net_sent_mb", "net_recv_mb", "net_sent_speed",
     "net_recv_speed"}

\* C13: when an OS query of get_stats fails, the counter read inside
\* get_net_speed included, get_stats raises nothing and returns a SystemStats
\* whose twelve fields are all zero, and the stored network baseline is what it
\* was before the call.
C13_FailedSampleIsZero ==
    (ret.op = "get_stats" /\ ret.os.fails # "none") =>
        /\ ~ret.raised
        /\ DOMAIN ret.value = StatsFields
        /\ \A f \in StatsFields : ret.value[f] = 0
        /\ _last_net = ret.last_net
        /\ _last_net_time = ret.last_time

\* The counter read inside get_net_speed fails, at a later clock reading and
\* with other counter values than the stored baseline has.
C13_Witness ==
    /\ ret.op = "get_stats" /\ ret.os.fails = "get_net_speed"
    /\ ret.t > ret.last_time
    /\ ret.os.net # ret.last_net
    /\ ret.last_net # Counters(0, 0)
    /\ ret.value.net_sent_speed = 0

\* C14: both speeds get_net_speed returns are >= 0, whatever the counters and
\* the clock readings, and a direction whose counter fell since the previous
\* call reports speed 0.
C14_SpeedsClampedOnReset ==
    (ret.op = "get_net_speed" /\ ~ret.raised) =>
        /\ ~IsNegative(ret.value[1]) /\ ~IsNegative(ret.value[2])
        /\ ret.net.bytes_sent < ret.last_net.bytes_sent => ret.value[1].num = 0
        /\ ret.net.bytes_recv < ret.last_net.bytes_recv => ret.value[2].num = 0

\* C15: when the time since the previous call is zero or negative, the divisor
\* get_net_speed uses is 1.0: each speed is max(0, byte delta / 1.0 / 1024).
C15_NonPositiveElapsedBecomesOne ==
    (ret.op = "get_net_speed" /\ ~ret.raised /\ ret.t - ret.last_time <= 0) =>
        /\ ret.elapsed = 1
        /\ SameRatio(ret.value[1],
                     Max0(Ratio(ret.net.bytes_sent - ret.last_net.bytes_sent, KB)))
        /\ SameRatio(ret.value[2],
                     Max0(Ratio(ret.net.bytes_recv - ret.last_net.bytes_recv, KB)))

-----------------------------------------------------------------------------
(* main's loop, statement by statement: pc is the statement main is at and *)
(* stages lists what the current iteration has done so far                 *)

\* stats = get_stats(); procs = get_process_snapshot()
LoopGetStats ==
    /\ pc = "get_stats" /\ tick < MaxLoops
    /\ \E e \in Levels :
        /\ e = env \/ changes < MaxChanges
        /\ env' = e
        /\ changes' = IF e = env THEN changes ELSE changes + 1
        /\ loop_stats' = HostStats(e, tick)
        /\ samples' = Append(samples, HostStats(e, tick))
    /\ stages' = <<"sample">>
    /\ pc' = "save"
    /\ ret' = [op |-> "get_stats"]
    /\ UNCHANGED <<now, tick, histVars, zVars, alertVars, dbVars, anomalies_rows, anomalies_seq, schema, DB_LOCK, threads,
                   _last_net, _last_net_time, loop_anomalies>>

\* save(stats.cpu, stats.ram)
LoopSave ==
    /\ pc = "save"
    /\ \E r \in {save(loop_stats.cpu, loop_stats.ram, now, HostDb(env), Store)} :
        /\ stats_rows' = r.db.rows
        /\ stats_seq'  = r.db.seq
    /\ stages' = Append(stages, "persist")
    /\ pc' = "append"
    /\ ret' = [op |-> "save"]
    /\ UNCHANGED <<now, envVars, histVars, zVars, alertVars, anomalies_rows, anomalies_seq, schema, DB_LOCK, threads,
                   _last_net, _last_net_time, loop_stats, loop_anomalies>>

\* the five history appends
LoopAppend ==
    /\ pc = "append"
    /\ cpu_history'      = DequeAppend(cpu_history, loop_stats.cpu, SPARKLINE_LEN)
    /\ ram_history'      = DequeAppend(ram_history, loop_stats.ram, SPARKLINE_LEN)
    /\ disk_history'     = DequeAppend(disk_history, loop_stats.disk, SPARKLINE_LEN)
    /\ net_up_history'   = DequeAppend(net_up_history, loop_stats.net_sent_speed,
                                       SPARKLINE_LEN)
    /\ net_down_history' = DequeAppend(net_down_history, loop_stats.net_recv_speed,
                                       SPARKLINE_LEN)
    /\ stages' = Append(stages, "update histories")
    /\ pc' = "run_zscore"
    /\ ret' = [op |-> "append"]
    /\ UNCHANGED <<now, envVars, zVars, alertVars, dbVars, anomalies_rows, anomalies_seq, schema, DB_LOCK, threads,
                   _last_net, _last_net_time, loop_stats, loop_anomalies>>

\* anomalies = run_zscore(...)
LoopRunZscore ==
    /\ pc = "run_zscore"
    /\ \E z \in {run_zscore(loop_stats.cpu, loop_stats.ram, loop_stats.net_sent_speed,
                            loop_stats.net_recv_speed,
                            [cpu |-> z_cpu_buf, ram |-> z_ram_buf,
                             up |-> z_up_buf, down |-> z_down_buf])} :
        /\ z_cpu_buf'  = z.bufs.cpu
        /\ z_ram_buf'  = z.bufs.ram
        /\ z_up_buf'   = z.bufs.up
        /\ z_down_buf' = z.bufs.down
        /\ z_results'   = z.z_results
        /\ z_anomalies' = z.z_anomalies
        /\ loop_anomalies' = z.anomalies
        /\ ret' = [op |-> "run_zscore", value |-> z.anomalies]
    /\ stages' = Append(stages, "detect anomalies")
    /\ pc' = "log_anomalies"
    /\ UNCHANGED <<now, envVars, histVars, alertVars, dbVars, anomalies_rows, anomalies_seq, schema, DB_LOCK, threads,
                   _last_net, _last_net_time, loop_stats>>

\* for a in anomalies: _log_alert(f"z_{metric_key}", ...)
LoopLogAnomalies ==
    /\ pc = "log_anomalies"
    /\ \E st \in {LogAnomalies(loop_anomalies, now,
                               [log |-> alert_log, last |-> _last_alert_time,
                                fired |-> fired, calls |-> <<>>])} :
        /\ alert_log'        = st.log
        /\ _last_alert_time' = st.last
        /\ fired'            = st.fired
        /\ calls'            = st.calls
    /\ stages' = Append(stages, "govern alerts")
    /\ pc' = "make_layout"
    /\ ret' = [op |-> "log_anomalies"]
    /\ UNCHANGED <<now, envVars, histVars, zVars, dbVars, anomalies_rows, anomalies_seq, schema, DB_LOCK, threads, _last_net, _last_net_time,
                   loop_stats, loop_anomalies>>

\* make_layout(stats, procs): its build_status classifies cpu, ram and disk and
\* logs an alert for each that is not NORMAL.
LoopMakeLayout ==
    /\ pc = "make_layout"
    /\ \E st \in {build_status(loop_stats, now,
                               [log |-> alert_log, last |-> _last_alert_time,
                                fired |-> fired, calls |-> calls])} :
        /\ alert_log'        = st.log
        /\ _last_alert_time' = st.last
        /\ fired'            = st.fired
        /\ calls'            = st.calls
    /\ stages' = stages \o <<"evaluate thresholds", "govern alerts">>
    /\ pc' = "update"
    /\ ret' = [op |-> "make_layout"]
    /\ UNCHANGED <<now, envVars, histVars, zVars, dbVars, anomalies_rows, anomalies_seq, schema, DB_LOCK, threads, _last_net, _last_net_time,
                   loop_stats, loop_anomalies>>

\* live.update(..., refresh=True)
LoopUpdate ==
    /\ pc = "update"
    /\ stages' = Append(stages, "render")
    /\ pc' = "sleep"
    /\ ret' = [op |-> "update"]
    /\ UNCHANGED <<now, envVars, histVars, zVars, alertVars, dbVars, anomalies_rows, anomalies_seq, schema,
                   DB_LOCK, threads, _last_net, _last_net_time, loop_stats, loop_anomalies>>

\* time.sleep(REFRESH_RATE)
LoopSleep ==
    /\ pc = "sleep"
    /\ now' = now + REFRESH_RATE
    /\ tick' = tick + 1
    /\ pc' = "get_stats"
    /\ ret' = [op |-> "sleep"]
    /\ UNCHANGED <<env, changes, samples, histVars, zVars, alertVars, dbVars, anomalies_rows, anomalies_seq, schema,
                   DB_LOCK, threads, _last_net, _last_net_time, loop_stats, loop_anomalies, stages>>

NextLoop ==
    \/ LoopGetStats \/ LoopSave \/ LoopAppend \/ LoopRunZscore
    \/ LoopLogAnomalies \/ LoopMakeLayout \/ LoopUpdate \/ LoopSleep

SpecLoop == Init /\ [][NextLoop]_vars

\* The order the claim gives the stages of an iteration.
StageOrder ==
    <<"sample", "update histories", "detect anomalies", "evaluate thresholds",
      "govern alerts", "persist", "render">>

StageRank(stage) == CHOOSE i \in 1..Len(StageOrder) : StageOrder[i] = stage

\* C16: the stages of an iteration run in the order sample, update histories,
\* detect anomalies, evaluate thresholds, govern alerts, persist, render, and
\* the next iteration starts only when the render of this one has finished.
C16_StagesInOrder ==
    /\ \A i, j \in 1..Len(stages) :
        i < j => StageRank(stages[i]) <= StageRank(stages[j])
    /\ (pc = "get_stats" /\ stages # <<>>) => stages[Len(stages)] = "render"

-----------------------------------------------------------------------------
(* Threads calling the persistence operations concurrently                 *)

\* The places of a call between taking DB_LOCK and giving it back.
InsidePcs == {"connect", "execute", "commit", "rollback", "close", "release"}

\* A thread calls an operation and arrives at `with DB_LOCK:`.
CallOp(t) ==
    /\ threads[t].pc = "idle" /\ threads[t].calls < MaxCalls
    /\ \E op \in PersistenceOps :
        threads' = [threads EXCEPT ![t] = [@ EXCEPT !.pc = "acquire", !.op = op]]
    /\ UNCHANGED <<DB_LOCK, now, envVars, histVars, zVars, alertVars, dbVars, ret,
                   anomalies_rows, anomalies_seq, schema, _last_net, _last_net_time, pc, loop_stats, loop_anomalies, stages>>

\* DB_LOCK.acquire(): blocks while another thread holds the lock.
Acquire(t) ==
    /\ threads[t].pc = "acquire" /\ DB_LOCK = "free"
    /\ DB_LOCK' = t
    /\ threads' = [threads EXCEPT ![t] = [@ EXCEPT !.pc = "connect"]]
    /\ UNCHANGED <<now, envVars, histVars, zVars, alertVars, dbVars, ret, anomalies_rows, anomalies_seq, schema,
                   _last_net, _last_net_time, pc, loop_stats, loop_anomalies, stages>>

\* The connect, a statement, the commit, the rollback or the close.
InConn(t) ==
    /\ threads[t].pc \in InsidePcs \ {"release"}
    /\ \E ok \in BOOLEAN : threads' = [threads EXCEPT ![t] = Advance(@, ok)]
    /\ UNCHANGED <<DB_LOCK, now, envVars, histVars, zVars, alertVars, dbVars, ret,
                   anomalies_rows, anomalies_seq, schema, _last_net, _last_net_time, pc, loop_stats, loop_anomalies, stages>>

\* The end of the `with DB_LOCK` block, reached normally or by an exception;
\* the call then returns, or (init_db) raises.
Release(t) ==
    /\ threads[t].pc = "release"
    /\ DB_LOCK' = "free"
    /\ threads' = [threads EXCEPT ![t] = Idle(@.calls + 1)]
    /\ UNCHANGED <<now, envVars, histVars, zVars, alertVars, dbVars, ret, anomalies_rows, anomalies_seq, schema,
                   _last_net, _last_net_time, pc, loop_stats, loop_anomalies, stages>>

\* What a thread does by itself once it has called.
Running(t) == Acquire(t) \/ InConn(t) \/ Release(t)

NextLock == \E t \in Threads : CallOp(t) \/ Running(t)

\* A thread inside a call keeps running; it need not call again.
SpecLock == InitDb /\ [][NextLock]_vars /\ \A t \in Threads : WF_vars(Running(t))

\* At most one thread is between taking and giving back DB_LOCK, it is the
\* holder, and the lock is held by no thread that is outside.
LockInv ==
    /\ Cardinality({t \in Threads : threads[t].pc \in InsidePcs}) <= 1
    /\ \A t \in Threads : threads[t].pc \in InsidePcs <=> DB_LOCK = t
    /\ DB_LOCK \in Threads \cup {"free"}

\* C17: in every interleaving at most one persistence operation is inside its
\* connection at a time, the lock is given back on every way out (a failed
\* connect, statement or commit included), and a thread waiting for the lock
\* gets it.
C17_OneInsideLockReleased ==
    /\ []LockInv
    /\ \A t \in Threads : (threads[t].pc = "acquire") ~> (threads[t].pc = "connect")

\* A cleanup whose second statement or commit failed is about to give the lock
\* back while the other thread waits for it.
C17_Witness ==
    /\ threads["t1"].pc = "release" /\ threads["t1"].exc
    /\ threads["t1"].op = "cleanup_old_data" /\ threads["t1"].stmt = 2
    /\ threads["t2"].pc = "acquire"
    /\ DB_LOCK = "t1"

-----------------------------------------------------------------------------
(* Properties of the writing operations, under SpecTx                      *)

WritingOps == {"save", "log_anomaly", "cleanup_old_data"}

\* The cutoff of the last cleanup_old_data call.
Cutoff == ret.t - ret.args[1] * 86400

C19_CleanupRemovesExactlyOlder ==
    (ret.op = "cleanup_old_data" /\ ret.outcome = "ok") =>
        /\ stats_rows = {r \in ret.before.rows : r.timestamp >= Cutoff}
        /\ anomalies_rows = {r \in ret.before.anomalies : r.timestamp >= Cutoff}

\* A served cleanup that met, in each table, a row older than the cutoff and a
\* row exactly on it.
C19_Witness ==
    /\ ret.op = "cleanup_old_data" /\ ret.outcome = "ok"
    /\ \E r \in ret.before.rows : r.timestamp < Cutoff
    /\ \E r \in ret.before.anomalies : r.timestamp < Cutoff
    /\ \E r \in stats_rows : r.timestamp = Cutoff
    /\ \E r \in anomalies_rows : r.timestamp = Cutoff

-----------------------------------------------------------------------------
(* run_zscore fed a calm CPU and then a lasting spike, from empty buffers  *)

\* The CPU value i of the calm stretch, by its shape; each within 48..52.
CalmCpu(shape, i) ==
    CASE shape = "steady"      -> 50
      [] shape = "low"         -> 48
      [] shape = "high"        -> 52
      [] shape = "sawtooth"    -> 48 + (i % 5)
      [] shape = "alternating" -> IF i % 2 = 1 THEN 48 ELSE 52
      [] shape = "step"        -> IF i <= 15 THEN 48 ELSE 52

\* The 40 CPU values fed: 30 calm ones, then 10 at 95.
Scenario(shape) == [i \in 1..40 |-> IF i <= 30 THEN CalmCpu(shape, i) ELSE 95]

InitScenario ==
    /\ InitProgram
    /\ now = StartTime
    /\ env \in {"steady", "low", "high", "sawtooth", "alternating", "step"}

\* The next call of run_zscore; RAM and the network stay where they are.
Feed ==
    /\ Len(samples) < Len(Scenario(env))
    /\ \E in \in {Stats(Scenario(env)[Len(samples) + 1], 72, 40, 10, 20)} :
        \E z \in {run_zscore(in.cpu, in.ram, in.net_sent_speed, in.net_recv_speed,
                             [cpu |-> z_cpu_buf, ram |-> z_ram_buf,
                              up |-> z_up_buf, down |-> z_down_buf])} :
            /\ z_cpu_buf'  = z.bufs.cpu
            /\ z_ram_buf'  = z.bufs.ram
            /\ z_up_buf'   = z.bufs.up
            /\ z_down_buf' = z.bufs.down
            /\ z_results'   = z.z_results
            /\ z_anomalies' = z.z_anomalies
            /\ ret' = [op |-> "run_zscore", value |-> z.anomalies]
            /\ samples' = Append(samples, in)
    /\ tick' = tick + 1
    /\ UNCHANGED <<now, env, changes, histVars, alertVars, dbVars, restVars>>

NextScenario == Feed

SpecScenario == InitScenario /\ [][NextScenario]_vars

\* C20 as stated: after each of the calls 31 to 40, the ones fed 95, the CPU
\* result is flagged.
C20_FlaggedWhileAt95 ==
    Len(samples) \in 31..40 => z_results["CPU"].flagged

\* C20, amended: the CPU result is flagged, as a spike, after the calls 31, 32
\* and 33 and is not flagged after the calls 34 to 40: the 95s are in the window
\* they are scored against, and from the fourth on they are within 3 deviations
\* of its mean.
C20_FlaggedForThreeTicks ==
    /\ Len(samples) \in 31..33 =>
        /\ z_results["CPU"].flagged /\ z_results["CPU"].z = "pos"
        /\ \E i \in 1..Len(ret.value) : ret.value[i].label = "CPU"
    /\ Len(samples) \in 34..40 =>
        /\ ~z_results["CPU"].flagged
        /\ \A i \in 1..Len(ret.value) : ret.value[i].label # "CPU"

\* The fourth 95 after a calm stretch that moved: scored above the mean, and
\* not flagged.
C20_Witness ==
    /\ Len(samples) = 34 /\ env = "alternating"
    /\ z_cpu_buf[34] = 95 /\ z_cpu_buf[30] = 52 /\ z_cpu_buf[29] = 48
    /\ z_results["CPU"].z = "pos" /\ ~z_results["CPU"].flagged
    /\ z_anomalies = <<>>

-----------------------------------------------------------------------------
(* main's loop fed a full window and then a lasting spike, under a clock   *)
(* that the sleep moves by a second and that may jump by the cooldown      *)

\* The i-th CPU value: 29 of 50, then 10, 12, 11 over and over up to the 60th,
\* then 95.
SpikeFeed(i) ==
    IF i <= 29 THEN 50
    ELSE IF i <= Z_WINDOW THEN <<10, 12, 11>>[((i - 30) % 3) + 1]
    ELSE 95

\* One iteration of main's loop with the next CPU value; the other readings
\* stand, below their thresholds, and the backend answers.
FeedNext ==
    /\ tick < Z_WINDOW + MaxSpikes
    /\ Iteration(Stats(SpikeFeed(tick + 1), 60, 40, 10, 20), "ok")
    /\ tick' = tick + 1
    /\ UNCHANGED <<env, changes, restVars>>

\* The clock jumps by the cooldown, at any time from the end of the warm-up on;
\* changes counts the jumps.
CooldownElapses ==
    /\ tick >= Z_MIN_SAMPLES - 1
    /\ changes < MaxChanges
    /\ now' = now + ALERT_COOLDOWN
    /\ changes' = changes + 1
    /\ UNCHANGED <<env, tick, samples, histVars, zVars, alertVars, dbVars, ret, restVars>>

NextSpike == FeedNext \/ CooldownElapses

SpecSpike == InitAlert /\ [][NextSpike]_vars

\* The alerts of the last iteration: what it added to fired.
AddedNow == {i \in 1..Len(fired) : \E k \in 1..Len(calls) :
                calls[k].surfaced /\ calls[k].before = i - 1}

\* The z-score alerts on the spike that fired before the last iteration.
SpikeFiredEarlier == {i \in 1..Len(fired) \ AddedNow :
                        fired[i].key = "z_CPU" /\ fired[i].msg.val = 95}

\* Whether the last iteration ran with the cooldown of the spike's alert
\* elapsed.  Its clock reading is that of its _log_alert calls.
SpikeCooldownElapsed ==
    /\ calls # <<>>
    /\ \A i \in SpikeFiredEarlier : calls[1].t - fired[i].t >= ALERT_COOLDOWN

\* C21 as stated: the 61st value, the first 95, is flagged with z > 3 and adds a
\* z-score entry; a later 95 adds no entry within the cooldown of that alert and
\* adds a z-score entry once the cooldown has elapsed.
C21_SpikeAlertsAgainAfterCooldown ==
    /\ tick = Z_WINDOW + 1 =>
        /\ z_results["CPU"].flagged /\ z_results["CPU"].z = "pos"
        /\ \E i \in AddedNow : fired[i].key = "z_CPU" /\ fired[i].msg.src = "zscore"
    /\ tick > Z_WINDOW + 1 =>
        /\ ~SpikeCooldownElapsed => AddedNow = {}
        /\ SpikeCooldownElapsed => \E i \in AddedNow : fired[i].msg.src = "zscore"

\* C21, amended: the 61st value, the first 95, is flagged with z > 3 and is
\* the one anomaly returned; its z-score alert is submitted and adds an entry
\* exactly when the clock reads ALERT_COOLDOWN or more past the last z-score
\* alert on CPU (the drops to 10, 12 and 11 at the 30th to 32nd value are flagged
\* too), or past 0 when there is none.  A later 95 is not flagged, with two or
\* more 95s in the window, and no z-score alert is submitted for it, within the
\* cooldown or after it.
C21_SpikeAlertsAtMostOnce ==
    /\ tick = Z_WINDOW + 1 =>
        /\ z_results["CPU"].flagged /\ z_results["CPU"].z = "pos"
        /\ Len(ret.value) = 1 /\ ret.value[1].label = "CPU"
        /\ \E k \in 1..Len(calls) :
            /\ calls[k].key = "z_CPU" /\ calls[k].msg.src = "zscore"
            /\ calls[k].msg.val = 95
            /\ calls[k].surfaced <=>
                   calls[k].t - LastOwnFire(calls[k]) >= ALERT_COOLDOWN
    /\ tick > Z_WINDOW + 1 =>
        /\ z_results["CPU"].val = 95 /\ ~z_results["CPU"].flagged
        /\ ret.value = <<>>
        /\ \A k \in 1..Len(calls) : calls[k].msg.src # "zscore"
        /\ \A i \in AddedNow : fired[i].msg.src # "zscore"

\* The second 95 fed with the cooldown of the first one's alert elapsed: the
\* threshold alert on CPU comes back, the z-score alert does not.
C21_Witness ==
    /\ tick = Z_WINDOW + 2
    /\ SpikeCooldownElapsed /\ SpikeFiredEarlier # {}
    /\ \E i \in AddedNow : fired[i].key = "cpu" /\ fired[i].msg.val = 95
    /\ z_results["CPU"].z = "pos" /\ ~z_results["CPU"].flagged

-----------------------------------------------------------------------------
(* What a _log_alert call changes, under SpecAlert                         *)

\* A step that is a _log_alert call: the clock stands and calls' holds the call.
LogAlertFrame ==
    (now' = now /\ calls' # <<>>) =>
        LET c == calls'[1]
        IN  /\ ~c.surfaced =>
                /\ alert_log' = alert_log
                /\ _last_alert_time' = _last_alert_time
            /\ c.surfaced =>
                /\ DOMAIN _last_alert_time' = DOMAIN _last_alert_time \cup {c.key}
                /\ \A k \in DOMAIN _last_alert_time' \ {c.key} :
                       _last_alert_time'[k] = _last_alert_time[k]
                /\ _last_alert_time'[c.key] = now
                /\ Len(alert_log') <= ALERT_LOG_LEN
                /\ alert_log'[1].msg = c.msg
                /\ \A i \in 2..Len(alert_log') : alert_log'[i] = alert_log[i - 1]
            /\ UNCHANGED <<histVars, zVars, dbVars, restVars>>

\* C22: a _log_alert call that the cooldown suppresses leaves the alert log and
\* the whole map _last_alert_time as they were, the key's own time included; a
\* call that surfaces changes the entry of its own key, the alert log, and
\* nothing else.
C22_LogAlertFrame == [][LogAlertFrame]_vars

\* A call suppressed 59 seconds after its key fired, with another key in the
\* map: the key's time is still that of the fire.
C22_Witness ==
    /\ Len(calls) = 1 /\ ~calls[1].surfaced
    /\ calls[1].key \in DOMAIN _last_alert_time
    /\ calls[1].t - _last_alert_time[calls[1].key] = ALERT_COOLDOWN - 1
    /\ \E k \in DOMAIN _last_alert_time : k # calls[1].key

-----------------------------------------------------------------------------
(* main's loop on a steady host on which several metrics surge in one tick *)

\* What get_stats returns when the metrics of surging leave their steady
\* readings; every reading stays below its threshold.
SurgeStats(surging) ==
    Stats(IF "CPU" \in surging THEN 58 ELSE 50,
          IF "RAM" \in surging THEN 68 ELSE 60,
          40,
          IF "Net Upload" \in surging THEN 500 ELSE 10,
          IF "Net Download" \in surging THEN 300 ELSE 20)

\* One iteration of main's loop: steady, or once the warm-up is over, with two
\* or more metrics surging; changes counts the surges.
FeedSurge ==
    /\ tick < Z_MIN_SAMPLES + MaxSpikes
    /\ \E surging \in SUBSET {ZLabels[i] : i \in 1..Len(ZLabels)} :
        /\ Cardinality(surging) # 1
        /\ surging # {} => (tick >= Z_MIN_SAMPLES - 1 /\ changes < MaxChanges)
        /\ changes' = IF surging = {} THEN changes ELSE changes + 1
        /\ Iteration(SurgeStats(surging), "ok")
    /\ tick' = tick + 1
    /\ UNCHANGED <<env, restVars>>

NextSurge == FeedSurge

SpecSurge == InitDb /\ [][NextSurge]_vars

\* C23: the z-score alerts of two metrics have different keys, and whether the
\* z-score alert of a tracked metric adds an entry depends on the earlier
\* z-score alerts of that metric only: one that is submitted
\* ALERT_COOLDOWN seconds or more after the metric's last one adds its entry,
\* whatever the other metrics did in the same tick or the 60 seconds before.
C23_MetricsDoNotSuppressEachOther ==
    /\ \A i, j \in 1..Len(calls) :
        (/\ calls[i].msg.src = "zscore" /\ calls[j].msg.src = "zscore"
         /\ calls[i].msg.label # calls[j].msg.label)
            => calls[i].key # calls[j].key
    /\ \A k \in 1..Len(calls) :
        (/\ calls[k].msg.src = "zscore"
         /\ calls[k].t - LastOwnFire(calls[k]) >= ALERT_COOLDOWN)
            => calls[k].surfaced

-----------------------------------------------------------------------------
(* The first call for a key, under SpecAlert                               *)

\* C24: a _log_alert call for a key that has not fired before adds its entry,
\* whatever the clock reads; a suppressed call is for a key that has fired.
C24_FirstCallSurfaces ==
    \A k \in 1..Len(calls) :
        /\ FiresOf(calls[k].key, calls[k].before) = {} => calls[k].surfaced
        /\ ~calls[k].surfaced => calls[k].key \in DOMAIN _last_alert_time

====
